---- MODULE Spec2Model ----
(***************************************************************************)
(* Library Books API (app.py): an in-memory list of Book records and an id *)
(* counter, mirrored to books.json on every mutating request.  Requests    *)
(* run on worker threads; only the file write is covered by the lock.      *)
(* Each action below is one interleaving point of the Python code.         *)
(***************************************************************************)
EXTENDS Integers, Sequences, FiniteSets, TLC

\* ---------------------------------------------------------------- bounds
NumThreads == 2
MaxId == 2
MaxBooks == 2
MaxFails == 1

Threads == 1..NumThreads
IdArgs == 1..MaxId

\* Valid request bodies (BookIn): non-empty title and author, year >= 0.
Payloads ==
  { [title |-> "Dune", author |-> "Herbert", year |-> 1965],
    [title |-> "Foo", author |-> "Bar", year |-> 2000] }

VARIABLES
  books,      \* the global list  books
  next_id,    \* the global counter  _next_id
  file,       \* DATA_FILE: [state: "absent" | "partial" | "ok", data: JSON array]
  lock,       \* the global Lock: 0 when free, else the thread holding it
  pc,         \* pc[t]: position of worker thread t in its request handler
  req,        \* req[t]: the request being handled (op, book_id, payload)
  loc,        \* loc[t]: the handler's local variables
  res,        \* res[t]: the response produced (status, body)
  fails,      \* number of file I/O errors that have occurred
  serial,     \* history: since process start, requests have run one at a time
  snap,       \* history: the Store as it was when the request running alone began
  last,       \* history: the mutating request that completed last, having run alone
  created,    \* history: ids create_book has handed out since process start
  lastId,     \* history: id returned by the latest completed create_book
  ever,       \* history: ids create_book has handed out in any process lifetime
  life        \* history: how this process started, whether it has only loaded
              \* so far, and how many create_book calls it has received

\* The history variables record serial executions: they are cleared as soon
\* as two requests overlap, and recorded again after the next restart.
vars == <<books, next_id, file, lock, pc, req, loc, res, fails,
          serial, snap, last, created, lastId, ever, life>>

\* ------------------------------------------------------------ data shapes
NoBook == [id |-> 0, title |-> "", author |-> "", year |-> 0]
NoPayload == [title |-> "", author |-> "", year |-> 0]
NoReq == [op |-> "none", book_id |-> 0, payload |-> NoPayload]
NoLoc == [i |-> 0, b |-> NoBook, tmp |-> 0, j |-> 0, out |-> <<>>, err |-> FALSE]
NoRes == [status |-> 0, body |-> <<>>]
NoFile == [state |-> "absent", data |-> <<>>]
NoSnap == [valid |-> FALSE, books |-> <<>>, next_id |-> 0, file |-> NoFile]
NoLast == [valid |-> FALSE, req |-> NoReq, res |-> NoRes]
NoLife == [start |-> "none", loaded |-> FALSE, creates |-> 0]

\* Book(id=..., **payload.dict())
NewBook(id, p) ==
  [id |-> id, title |-> p.title, author |-> p.author, year |-> p.year]

\* Variant of Dict: the values of title and author change places.
DictSwapped(b) ==
  << <<"title", b.author>>, <<"author", b.title>>, <<"year", b.year>>,
     <<"id", b.id>> >>

\* b.dict(): the fields in declaration order, inherited BookIn fields first.
Dict(b) ==
  << <<"title", b.title>>, <<"author", b.author>>, <<"year", b.year>>,
     <<"id", b.id>> >>

\* item[key] of a decoded JSON object.
Lookup(item, key) ==
  item[CHOOSE n \in 1..Len(item) : item[n][1] = key][2]

\* Book(**item)
BookOf(item) ==
  [id |-> Lookup(item, "id"), title |-> Lookup(item, "title"),
   author |-> Lookup(item, "author"), year |-> Lookup(item, "year")]

\* [Book(**item) for item in data]
ParseBooks(data) == [n \in 1..Len(data) |-> BookOf(data[n])]

Ids(bs) == { bs[n].id : n \in 1..Len(bs) }

MaxOf(S) == CHOOSE m \in S : \A x \in S : x <= m

\* Variant of NextIdFor: one more than the id of the last Record.
NextIdAfterLast(bs) == IF bs # <<>> THEN bs[Len(bs)].id + 1 ELSE 1

\* if books: _next_id = max(b.id for b in books) + 1  else: _next_id = 1
NextIdFor(bs) == IF bs # <<>> THEN MaxOf(Ids(bs)) + 1 ELSE 1

\* Variant of Incr: the counter is stored back unchanged.
IncrStuck(n) == n

\* _next_id += 1, the value stored from the value read
Incr(n) == n + 1

\* Variant of Matches: any Record with an id up to book_id matches.
MatchesUpTo(b, book_id) == b.id <= book_id

\* b.id == book_id
Matches(b, book_id) == b.id = book_id

\* books.pop(i)
PopAt(bs, i) == SubSeq(bs, 1, i - 1) \o SubSeq(bs, i + 1, Len(bs))

\* Variant of ReplaceAt: the old Record is removed and the new one appended.
ReplaceAtEnd(bs, i, b) == Append(PopAt(bs, i), b)

\* books[i] = updated
ReplaceAt(bs, i, b) == [bs EXCEPT ![i] = b]

\* Variant of LockFree: acquire never waits.
LockIgnored(l) == TRUE

\* lock.acquire() succeeds only on a free lock
LockFree(l) == l = 0

InFlight == { t \in Threads : pc[t] # "idle" }
Quiet == InFlight = {}

\* ------------------------------------------------------------------ Init
Init ==
  /\ books = <<>>
  /\ next_id = 1
  /\ file = NoFile
  /\ lock = 0
  /\ pc = [t \in Threads |-> "idle"]
  /\ req = [t \in Threads |-> NoReq]
  /\ loc = [t \in Threads |-> NoLoc]
  /\ res = [t \in Threads |-> NoRes]
  /\ fails = 0
  /\ serial = TRUE
  /\ life = [start |-> "absent", loaded |-> TRUE, creates |-> 0]
  /\ snap = NoSnap
  /\ last = NoLast
  /\ created = {}
  /\ lastId = 0
  /\ ever = {}

\* ------------------------------------------------- request dispatch/return
\* The transport hands a validated request to worker t.  The history
\* variable snap keeps the Store as it was if no other request is running.
Begin(t, r, start) ==
  /\ pc[t] = "idle"
  /\ pc' = [pc EXCEPT ![t] = start]
  /\ req' = [req EXCEPT ![t] = r]
  /\ loc' = [loc EXCEPT ![t] = [NoLoc EXCEPT !.i = 1]]
  /\ res' = [res EXCEPT ![t] = NoRes]
  /\ snap' = IF Quiet
               THEN [valid |-> TRUE, books |-> books, next_id |-> next_id,
                     file |-> file]
               ELSE NoSnap
  /\ last' = IF Quiet /\ r.op \in {"get", "list"} THEN last ELSE NoLast
  /\ serial' = (serial /\ Quiet)
  /\ created' = IF serial /\ Quiet THEN created ELSE {}
  /\ lastId' = IF serial /\ Quiet THEN lastId ELSE 0
  /\ ever' = IF serial /\ Quiet THEN ever ELSE {}
  /\ life' = IF serial /\ Quiet
               THEN [life EXCEPT !.loaded = FALSE,
                                 !.creates = IF r.op = "create" THEN @ + 1 ELSE @]
               ELSE NoLife
  /\ UNCHANGED <<books, next_id, file, lock, fails>>

\* The handler of t finishes with the given response.
Finish(t, status, body) ==
  /\ pc' = [pc EXCEPT ![t] = "done"]
  /\ res' = [res EXCEPT ![t] = [status |-> status, body |-> body]]
  /\ loc' = [loc EXCEPT ![t] = NoLoc]

HistUnchanged == UNCHANGED <<serial, snap, last, created, lastId, ever, life>>

\* Creates that have not yet appended their Record.
Pending == { t \in Threads : pc[t] \in {"c_new", "c_incr_read", "c_incr_write", "c_append"} }

\* ---------------------------------------------------------- GET /books
StartList(t) ==
  /\ pc[t] = "idle"
  /\ Begin(t, [NoReq EXCEPT !.op = "list"], "l_ret")

\* return books
GetBooks(t) ==
  /\ pc[t] = "l_ret"
  /\ Finish(t, 200, books)
  /\ UNCHANGED <<books, next_id, file, lock, req, fails>>
  /\ HistUnchanged

\* ------------------------------------------------- GET /books/{book_id}
StartGet(t) ==
  /\ pc[t] = "idle"
  /\ \E id \in IdArgs : Begin(t, [NoReq EXCEPT !.op = "get", !.book_id = id], "g_scan")

\* One iteration of  for b in books: if b.id == book_id: return b
\* and, when the iterator is exhausted, the 404.
GetBook(t) ==
  /\ pc[t] = "g_scan"
  /\ IF loc[t].i > Len(books)
       THEN Finish(t, 404, <<>>)
       ELSE IF Matches(books[loc[t].i], req[t].book_id)
              THEN Finish(t, 200, <<books[loc[t].i]>>)
              ELSE /\ loc' = [loc EXCEPT ![t].i = @ + 1]
                   /\ UNCHANGED <<pc, res>>
  /\ UNCHANGED <<books, next_id, file, lock, req, fails>>
  /\ HistUnchanged

\* ---------------------------------------------------------- POST /books
StartCreate(t) ==
  /\ next_id <= MaxId
  /\ Len(books) + Cardinality(Pending) < MaxBooks
  /\ \E p \in Payloads : Begin(t, [NoReq EXCEPT !.op = "create", !.payload = p], "c_new")

\* Variant of CreateNew: the new Record takes the incremented counter.
CreateNewAhead(t) ==
  /\ pc[t] = "c_new"
  /\ loc' = [loc EXCEPT ![t].b = NewBook(next_id + 1, req[t].payload)]
  /\ pc' = [pc EXCEPT ![t] = "c_incr_read"]
  /\ created' = IF serial THEN created \cup {next_id + 1} ELSE created
  /\ ever' = IF serial THEN ever \cup {next_id + 1} ELSE ever
  /\ UNCHANGED <<books, next_id, file, lock, req, res, fails, serial, snap, last, lastId, life>>

\* new_book = Book(id=_next_id, **payload.dict())
CreateNew(t) ==
  /\ pc[t] = "c_new"
  /\ loc' = [loc EXCEPT ![t].b = NewBook(next_id, req[t].payload)]
  /\ pc' = [pc EXCEPT ![t] = "c_incr_read"]
  /\ created' = IF serial THEN created \cup {next_id} ELSE created
  /\ ever' = IF serial THEN ever \cup {next_id} ELSE ever
  /\ UNCHANGED <<books, next_id, file, lock, req, res, fails, serial, snap, last, lastId, life>>

\* _next_id += 1, the load of the global
CreateIncrRead(t) ==
  /\ pc[t] = "c_incr_read"
  /\ loc' = [loc EXCEPT ![t].tmp = next_id]
  /\ pc' = [pc EXCEPT ![t] = "c_incr_write"]
  /\ UNCHANGED <<books, next_id, file, lock, req, res, fails>>
  /\ HistUnchanged

\* Variant of CreateIncrWrite: the counter is recomputed from the list.
CreateIncrWriteRecount(t) ==
  /\ pc[t] = "c_incr_write"
  /\ next_id' = NextIdFor(books)
  /\ loc' = [loc EXCEPT ![t].tmp = 0]
  /\ pc' = [pc EXCEPT ![t] = "c_append"]
  /\ UNCHANGED <<books, file, lock, req, res, fails>>
  /\ HistUnchanged

\* _next_id += 1, the store to the global
CreateIncrWrite(t) ==
  /\ pc[t] = "c_incr_write"
  /\ next_id' = Incr(loc[t].tmp)
  /\ loc' = [loc EXCEPT ![t].tmp = 0]
  /\ pc' = [pc EXCEPT ![t] = "c_append"]
  /\ UNCHANGED <<books, file, lock, req, res, fails>>
  /\ HistUnchanged

\* Variant of CreateAppend: the new Record is put at the front of the list.
CreateAppendFront(t) ==
  /\ pc[t] = "c_append"
  /\ books' = <<loc[t].b>> \o books
  /\ pc' = [pc EXCEPT ![t] = "s_acquire"]
  /\ UNCHANGED <<next_id, file, lock, req, loc, res, fails>>
  /\ HistUnchanged

\* books.append(new_book), then the call of save_books()
CreateAppend(t) ==
  /\ pc[t] = "c_append"
  /\ books' = Append(books, loc[t].b)
  /\ pc' = [pc EXCEPT ![t] = "s_acquire"]
  /\ UNCHANGED <<next_id, file, lock, req, loc, res, fails>>
  /\ HistUnchanged

\* ------------------------------------------------- PUT /books/{book_id}
StartUpdate(t) ==
  /\ pc[t] = "idle"
  /\ \E id \in IdArgs, p \in Payloads :
       Begin(t, [op |-> "update", book_id |-> id, payload |-> p], "u_scan")

\* One iteration of  for i, b in enumerate(books): if b.id == book_id
\* and, when the iterator is exhausted, the 404.
UpdateScan(t) ==
  /\ pc[t] = "u_scan"
  /\ IF loc[t].i > Len(books)
       THEN Finish(t, 404, <<>>)
       ELSE IF Matches(books[loc[t].i], req[t].book_id)
              THEN /\ pc' = [pc EXCEPT ![t] = "u_assign"]
                   /\ UNCHANGED <<loc, res>>
              ELSE /\ loc' = [loc EXCEPT ![t].i = @ + 1]
                   /\ UNCHANGED <<pc, res>>
  /\ UNCHANGED <<books, next_id, file, lock, req, fails>>
  /\ HistUnchanged

\* updated = Book(id=book_id, **payload.dict()); books[i] = updated
\* The assignment raises IndexError when the list has shrunk below i.
UpdateAssign(t) ==
  /\ pc[t] = "u_assign"
  /\ IF loc[t].i > Len(books)
       THEN /\ Finish(t, 500, <<>>)
            /\ UNCHANGED books
       ELSE /\ books' = ReplaceAt(books, loc[t].i, NewBook(req[t].book_id, req[t].payload))
            /\ loc' = [loc EXCEPT ![t].b = NewBook(req[t].book_id, req[t].payload)]
            /\ pc' = [pc EXCEPT ![t] = "s_acquire"]
            /\ UNCHANGED res
  /\ UNCHANGED <<next_id, file, lock, req, fails>>
  /\ HistUnchanged

\* ---------------------------------------------- DELETE /books/{book_id}
StartDelete(t) ==
  /\ pc[t] = "idle"
  /\ \E id \in IdArgs : Begin(t, [NoReq EXCEPT !.op = "delete", !.book_id = id], "d_scan")

\* One iteration of  for i, b in enumerate(books): if b.id == book_id
\* and, when the iterator is exhausted, the 404.
DeleteScan(t) ==
  /\ pc[t] = "d_scan"
  /\ IF loc[t].i > Len(books)
       THEN Finish(t, 404, <<>>)
       ELSE IF Matches(books[loc[t].i], req[t].book_id)
              THEN /\ pc' = [pc EXCEPT ![t] = "d_pop"]
                   /\ UNCHANGED <<loc, res>>
              ELSE /\ loc' = [loc EXCEPT ![t].i = @ + 1]
                   /\ UNCHANGED <<pc, res>>
  /\ UNCHANGED <<books, next_id, file, lock, req, fails>>
  /\ HistUnchanged

\* books.pop(i); raises IndexError when the list has shrunk below i.
DeletePop(t) ==
  /\ pc[t] = "d_pop"
  /\ IF loc[t].i > Len(books)
       THEN /\ Finish(t, 500, <<>>)
            /\ UNCHANGED books
       ELSE /\ books' = PopAt(books, loc[t].i)
            /\ pc' = [pc EXCEPT ![t] = "s_acquire"]
            /\ UNCHANGED <<loc, res>>
  /\ UNCHANGED <<next_id, file, lock, req, fails>>
  /\ HistUnchanged

\* ---------------------------------------------------------- save_books
\* Variant of SaveAcquire: the file is written without taking the lock.
SaveAcquireUnlocked(t) ==
  /\ pc[t] = "s_acquire"
  /\ pc' = [pc EXCEPT ![t] = "s_open"]
  /\ UNCHANGED <<books, next_id, file, lock, req, loc, res, fails>>
  /\ HistUnchanged

\* with lock:  (blocks while another thread holds the lock)
SaveAcquire(t) ==
  /\ pc[t] = "s_acquire"
  /\ LockFree(lock)
  /\ lock' = t
  /\ pc' = [pc EXCEPT ![t] = "s_open"]
  /\ UNCHANGED <<books, next_id, file, req, loc, res, fails>>
  /\ HistUnchanged

\* open(DATA_FILE, "w"): truncates the file, or raises OSError.
SaveOpen(t) ==
  /\ pc[t] = "s_open"
  /\ \/ /\ file' = [state |-> "partial", data |-> <<>>]
        /\ loc' = [loc EXCEPT ![t].j = 1, ![t].out = <<>>]
        /\ pc' = [pc EXCEPT ![t] = "s_iter"]
        /\ UNCHANGED fails
     \/ /\ fails < MaxFails
        /\ fails' = fails + 1
        /\ loc' = [loc EXCEPT ![t].err = TRUE]
        /\ pc' = [pc EXCEPT ![t] = "s_release"]
        /\ UNCHANGED file
  /\ UNCHANGED <<books, next_id, lock, req, res>>
  /\ HistUnchanged

\* One iteration of  [b.dict() for b in books]  over the live list.
SaveIter(t) ==
  /\ pc[t] = "s_iter"
  /\ IF loc[t].j > Len(books)
       THEN /\ pc' = [pc EXCEPT ![t] = "s_dump"]
            /\ UNCHANGED loc
       ELSE /\ loc' = [loc EXCEPT ![t].out = Append(@, Dict(books[loc[t].j])),
                                  ![t].j = @ + 1]
            /\ UNCHANGED pc
  /\ UNCHANGED <<books, next_id, file, lock, req, res, fails>>
  /\ HistUnchanged

\* json.dump(..., f) and the close of f: the file holds the array, or the
\* write raises and the file stays truncated.
SaveDump(t) ==
  /\ pc[t] = "s_dump"
  /\ \/ /\ file' = [state |-> "ok", data |-> loc[t].out]
        /\ loc' = [loc EXCEPT ![t].j = 0, ![t].out = <<>>]
        /\ UNCHANGED fails
     \/ /\ fails < MaxFails
        /\ fails' = fails + 1
        /\ loc' = [loc EXCEPT ![t].j = 0, ![t].out = <<>>, ![t].err = TRUE]
        /\ UNCHANGED file
  /\ pc' = [pc EXCEPT ![t] = "s_release"]
  /\ UNCHANGED <<books, next_id, lock, req, res>>
  /\ HistUnchanged

\* Variant of SaveRelease: an error of the write is swallowed.
SaveReleaseSwallow(t) ==
  /\ pc[t] = "s_release"
  /\ lock' = 0
  /\ IF req[t].op = "create" THEN Finish(t, 201, <<loc[t].b>>)
     ELSE IF req[t].op = "update" THEN Finish(t, 200, <<loc[t].b>>)
     ELSE Finish(t, 204, <<>>)
  /\ UNCHANGED <<books, next_id, file, req, fails>>
  /\ HistUnchanged

\* Variant of SaveRelease: the lock is not released when the write raised.
SaveReleaseLeak(t) ==
  /\ pc[t] = "s_release"
  /\ lock' = IF loc[t].err THEN lock ELSE 0
  /\ IF loc[t].err
       THEN Finish(t, 500, <<>>)
       ELSE IF req[t].op = "create" THEN Finish(t, 201, <<loc[t].b>>)
       ELSE IF req[t].op = "update" THEN Finish(t, 200, <<loc[t].b>>)
       ELSE Finish(t, 204, <<>>)
  /\ UNCHANGED <<books, next_id, file, req, fails>>
  /\ HistUnchanged

\* Leaving  with lock:  releases the lock, also when the body raised; then
\* the handler returns its result, or the error propagates.
SaveRelease(t) ==
  /\ pc[t] = "s_release"
  /\ lock' = 0
  /\ IF loc[t].err
       THEN Finish(t, 500, <<>>)
       ELSE IF req[t].op = "create" THEN Finish(t, 201, <<loc[t].b>>)
       ELSE IF req[t].op = "update" THEN Finish(t, 200, <<loc[t].b>>)
       ELSE Finish(t, 204, <<>>)
  /\ UNCHANGED <<books, next_id, file, req, fails>>
  /\ HistUnchanged

\* The response of t is delivered; the worker is free again.
Return(t) ==
  /\ pc[t] = "done"
  /\ pc' = [pc EXCEPT ![t] = "idle"]
  /\ last' = IF snap.valid /\ res[t].status \in {200, 201, 204}
                  /\ req[t].op \in {"create", "update", "delete"}
                THEN [valid |-> TRUE, req |-> req[t], res |-> res[t]]
                ELSE NoLast
  /\ lastId' = IF serial /\ req[t].op = "create" /\ res[t].status = 201
                 THEN res[t].body[1].id ELSE lastId
  /\ snap' = NoSnap
  /\ req' = [req EXCEPT ![t] = NoReq]
  /\ res' = [res EXCEPT ![t] = NoRes]
  /\ UNCHANGED <<books, next_id, file, lock, loc, fails, serial, created, ever, life>>

\* ------------------------------------------------- restart / load_books
\* The process is restarted while no request is running: the module globals
\* are initialised anew and on_startup calls load_books().  A file that does
\* not parse makes startup fail, so no restart is modelled from it.
Reload ==
  /\ Quiet
  /\ file.state # "partial"
  /\ books' = IF file.state = "ok" THEN ParseBooks(file.data) ELSE <<>>
  /\ next_id' = IF file.state = "ok" THEN NextIdFor(ParseBooks(file.data)) ELSE 1
  /\ lock' = 0
  /\ serial' = TRUE
  /\ life' = [start |-> file.state, loaded |-> TRUE, creates |-> 0]
  /\ snap' = NoSnap
  /\ last' = NoLast
  /\ created' = {}
  /\ lastId' = 0
  /\ UNCHANGED <<file, pc, req, loc, res, fails, ever>>

\* Requests are dispatched concurrently on the worker threads.
Next ==
  \/ \E t \in Threads :
       \/ StartList(t) \/ GetBooks(t)
       \/ StartGet(t) \/ GetBook(t)
       \/ StartCreate(t) \/ CreateNew(t) \/ CreateIncrRead(t)
       \/ CreateIncrWrite(t) \/ CreateAppend(t)
       \/ StartUpdate(t) \/ UpdateScan(t) \/ UpdateAssign(t)
       \/ StartDelete(t) \/ DeleteScan(t) \/ DeletePop(t)
       \/ SaveAcquire(t) \/ SaveOpen(t) \/ SaveIter(t) \/ SaveDump(t)
       \/ SaveRelease(t)
       \/ Return(t)
  \/ Reload

Spec == Init /\ [][Next]_vars

\* Requests are handled one after another: a worker runs only while every
\* other worker is idle.
Alone(t) == InFlight \subseteq {t}

NextSeq ==
  \/ \E t \in Threads :
       \/ Alone(t) /\ StartList(t)
       \/ Alone(t) /\ GetBooks(t)
       \/ Alone(t) /\ StartGet(t)
       \/ Alone(t) /\ GetBook(t)
       \/ Alone(t) /\ StartCreate(t)
       \/ Alone(t) /\ CreateNew(t)
       \/ Alone(t) /\ CreateIncrRead(t)
       \/ Alone(t) /\ CreateIncrWrite(t)
       \/ Alone(t) /\ CreateAppend(t)
       \/ Alone(t) /\ StartUpdate(t)
       \/ Alone(t) /\ UpdateScan(t)
       \/ Alone(t) /\ UpdateAssign(t)
       \/ Alone(t) /\ StartDelete(t)
       \/ Alone(t) /\ DeleteScan(t)
       \/ Alone(t) /\ DeletePop(t)
       \/ Alone(t) /\ SaveAcquire(t)
       \/ Alone(t) /\ SaveOpen(t)
       \/ Alone(t) /\ SaveIter(t)
       \/ Alone(t) /\ SaveDump(t)
       \/ Alone(t) /\ SaveRelease(t)
       \/ Alone(t) /\ Return(t)
  \/ Reload

SpecSeq == Init /\ [][NextSeq]_vars

\* ===================================================================
\* Properties
\* ===================================================================
Mutating == {"create", "update", "delete"}

\* t has just completed a request that ran with no other request in between.
DoneAlone(t) == pc[t] = "done" /\ snap.valid

\* The request of t follows directly on the completed request in  last.
Follows(t, op) == DoneAlone(t) /\ last.valid /\ last.req.op = op

\* Position of the first Record with the given id.
IndexOf(bs, id) ==
  CHOOSE k \in 1..Len(bs) : bs[k].id = id /\ \A m \in 1..(k - 1) : bs[m].id # id

InSave == { t \in Threads : pc[t] \in {"s_open", "s_iter", "s_dump", "s_release"} }

\* C1: in every reachable state, also of concurrently running requests, no
\* two Records of the Store have the same id.
C1_UniqueIds ==
  \A m, n \in 1..Len(books) : m # n => books[m].id # books[n].id

\* C2: in every reachable state, also of concurrently running requests, the
\* id counter is strictly greater than the id of every Record of the Store.
C2_CounterAboveIds ==
  \A n \in 1..Len(books) : books[n].id < next_id

\* C3: within one process lifetime, when requests run one after another, the
\* id a create returns is strictly greater than the id returned by the
\* create before it, whatever get, list, update and delete calls lie between.
C3_CreateIdsIncrease ==
  \A t \in Threads :
    (pc[t] = "done" /\ serial /\ req[t].op = "create" /\ res[t].status = 201)
      => res[t].body[1].id > lastId

\* C3 witness: a second create has returned after the Record of the first
\* one was deleted.
C3_Witness ==
  \E t \in Threads :
    /\ pc[t] = "done" /\ serial /\ req[t].op = "create" /\ res[t].status = 201
    /\ lastId >= 1
    /\ lastId \notin Ids(books)

\* C4 as stated: create never hands out an id that a create has handed out
\* before, in this or in an earlier process lifetime.
C4_NeverReassigned ==
  [][\A t \in Threads : CreateNew(t) => next_id \notin ever]_vars

\* C4 as amended: within one process lifetime, when requests run one after
\* another, create never hands out an id that a create has handed out
\* before, also after the Record with that id was deleted.
C4_NoReuseInLifetime ==
  [][\A t \in Threads : (serial /\ CreateNew(t)) => next_id \notin created]_vars

\* C4 witness: a create has just taken a fresh id while an id handed out
\* earlier in this lifetime is no longer in the Store.
C4_Witness ==
  \E t \in Threads :
    /\ pc[t] = "c_incr_read" /\ serial
    /\ \E id \in created : id # loc[t].b.id /\ id \notin Ids(books)

\* C5: when no other request runs in between, a get on the id a create has
\* returned succeeds with the Record made of that id and the created title,
\* author and year.
C5_CreateThenGet ==
  \A t \in Threads :
    /\ (DoneAlone(t) /\ req[t].op = "create" /\ res[t].status = 201)
         => /\ res[t].body = <<NewBook(res[t].body[1].id, req[t].payload)>>
            /\ books = Append(snap.books, res[t].body[1])
    /\ (Follows(t, "create") /\ req[t].op = "get"
          /\ req[t].book_id = last.res.body[1].id)
         => /\ res[t].status = 200
            /\ res[t].body = <<NewBook(req[t].book_id, last.req.payload)>>

\* C6: when no other request runs in between, an update of an id present in
\* the Store returns the Record with that id and exactly the supplied fields,
\* leaves every other Record, the position and the id counter unchanged, and
\* a following get on that id returns the new Record.
C6_UpdateReplaces ==
  \A t \in Threads :
    /\ (DoneAlone(t) /\ req[t].op = "update" /\ req[t].book_id \in Ids(snap.books))
         => /\ res[t].status \in {200, 500}
            /\ res[t].status = 200 =>
                 /\ res[t].body = <<NewBook(req[t].book_id, req[t].payload)>>
                 /\ Len(books) = Len(snap.books)
                 /\ \A n \in 1..Len(books) :
                      books[n] = IF n = IndexOf(snap.books, req[t].book_id)
                                   THEN res[t].body[1] ELSE snap.books[n]
            /\ next_id = snap.next_id
    /\ (Follows(t, "update") /\ req[t].op = "get"
          /\ req[t].book_id = last.req.book_id)
         => /\ res[t].status = 200
            /\ res[t].body = <<NewBook(last.req.book_id, last.req.payload)>>

\* C6 witness: an update has changed the fields of the first of two Records.
C6_Witness ==
  \E t \in Threads :
    /\ DoneAlone(t) /\ req[t].op = "update" /\ res[t].status = 200
    /\ Len(snap.books) = 2
    /\ snap.books[1].id = req[t].book_id
    /\ snap.books[1] # res[t].body[1]

\* C7: when no other request runs in between, after a successful delete of an
\* id present in the Store the other Records remain in their order, no Record
\* of the list has that id, and a following get on that id fails with 404.
C7_DeleteRemoves ==
  \A t \in Threads :
    /\ (DoneAlone(t) /\ req[t].op = "delete" /\ res[t].status = 204)
         => /\ books = PopAt(snap.books, IndexOf(snap.books, req[t].book_id))
            /\ req[t].book_id \notin Ids(books)
    /\ (Follows(t, "delete") /\ req[t].op = "get"
          /\ req[t].book_id = last.req.book_id)
         => res[t].status = 404
    /\ (Follows(t, "delete") /\ req[t].op = "list")
         => last.req.book_id \notin Ids(res[t].body)

\* C8: when no other request runs in between, get, update and delete of an id
\* that no Record of the Store has fail with 404 and leave the list, the id
\* counter and the backing file as they were.
C8_AbsentIdNotFound ==
  \A t \in Threads :
    (DoneAlone(t) /\ req[t].op \in {"get", "update", "delete"}
       /\ req[t].book_id \notin Ids(snap.books))
      => /\ res[t].status = 404
         /\ res[t].body = <<>>
         /\ books = snap.books
         /\ next_id = snap.next_id
         /\ file = snap.file

\* C8 witness: an update of an absent id has completed on a non-empty Store.
C8_Witness ==
  \E t \in Threads :
    /\ DoneAlone(t) /\ req[t].op = "update"
    /\ req[t].book_id \notin Ids(snap.books)
    /\ snap.books # <<>>
    /\ file.state = "ok"

\* C9: after a create, update or delete has saved the Store, loading the
\* backing file yields the Records of the in-memory list, with the same ids,
\* titles, authors and years, in the same order.
C9_SaveLoadRoundTrip ==
  \A t \in Threads :
    (DoneAlone(t) /\ req[t].op \in Mutating /\ res[t].status \in {200, 201, 204})
      => /\ file.state = "ok"
         /\ Len(file.data) = Len(books)
         /\ ParseBooks(file.data) = books

\* C9 witness: a save has written two Records that differ in every field.
C9_Witness ==
  \E t \in Threads :
    /\ DoneAlone(t) /\ req[t].op \in Mutating /\ res[t].status \in {200, 201, 204}
    /\ Len(books) = 2
    /\ books[1].id # books[2].id
    /\ books[1].title # books[2].title
    /\ file.state = "ok"

\* C10: at most one request at a time is inside the section of save_books
\* that the lock covers, and the lock is held by that request.
C10_ExclusiveFileWrite ==
  /\ Cardinality(InSave) <= 1
  /\ \A t \in InSave : lock = t

\* C10 witness: one request writes the file while another, its in-memory
\* change already made, waits for the lock.
C10_Witness ==
  \E t, u \in Threads :
    /\ pc[t] = "s_dump"
    /\ pc[u] = "s_acquire"
    /\ req[u].op = "create"
    /\ Len(books) = 2

\* C11: in a process started with no backing file, when requests run one
\* after another, the k-th create call returns id k, whatever updates and
\* deletes lie between; so the first returns 1 and the second 2.
C11_KthCreateReturnsK ==
  \A t \in Threads :
    (pc[t] = "done" /\ serial /\ life.start = "absent"
       /\ req[t].op = "create" /\ res[t].status = 201)
      => res[t].body[1].id = life.creates

\* C11 witness: the second create has returned after the Record of the
\* first one was updated and deleted, so the Store holds one Record.
C11_Witness ==
  \E t \in Threads :
    /\ pc[t] = "done" /\ serial /\ life.start = "absent"
    /\ req[t].op = "create" /\ res[t].status = 201
    /\ life.creates = 2
    /\ Len(books) = 1
    /\ file.state = "ok"

\* C12: in every interleaving, the Record that a delete pops is a Record with
\* the requested id: the index found by the scan still holds that Record
\* when pop runs.
C12_DeletePopsRequested ==
  [][\A t \in Threads :
       (DeletePop(t) /\ loc[t].i <= Len(books))
         => books[loc[t].i].id = req[t].book_id]_vars

\* C13: in every interleaving, the assignment of an update finds the index
\* of the scan inside the list and holding a Record with the requested id,
\* so it neither raises nor overwrites a Record of another id, and the set
\* of ids of the Store is unchanged.
C13_UpdateAssignsRequested ==
  [][\A t \in Threads :
       UpdateAssign(t)
         => /\ loc[t].i <= Len(books)
            /\ books[loc[t].i].id = req[t].book_id
            /\ Ids(books') = Ids(books)]_vars

\* What load_books would read from the backing file is the in-memory list;
\* a process that has not written yet has no file and an empty list.
Mirrored ==
  IF file.state = "ok"
    THEN Len(file.data) = Len(books) /\ ParseBooks(file.data) = books
    ELSE file.state = "absent" /\ books = <<>>

\* C14: whenever no request is in progress and no file write has failed, the
\* backing file holds the Records of the in-memory list in the same order,
\* in every interleaving of concurrent requests.
C14_MirrorAtQuiescence ==
  (Quiet /\ fails = 0) => Mirrored

\* C14 witness: the workers are idle again after two requests whose saves
\* overlapped with the other's in-memory change, and the Store holds two
\* Records.
C14_Witness ==
  /\ Quiet /\ fails = 0
  /\ ~serial
  /\ Len(books) = 2
  /\ file.state = "ok"

\* The steps of the handler that worker t is running, the wait for the lock
\* apart.
Run(t) ==
  \/ GetBooks(t) \/ GetBook(t)
  \/ CreateNew(t) \/ CreateIncrRead(t) \/ CreateIncrWrite(t) \/ CreateAppend(t)
  \/ UpdateScan(t) \/ UpdateAssign(t)
  \/ DeleteScan(t) \/ DeletePop(t)
  \/ SaveOpen(t) \/ SaveIter(t) \/ SaveDump(t) \/ SaveRelease(t)
  \/ Return(t)

\* Fair scheduling: a worker that can take a step eventually takes one, and
\* a worker waiting for a lock that is free again and again eventually gets
\* it.  Nothing obliges the transport to send requests or the process to
\* restart.
Fairness ==
  \A t \in Threads : WF_vars(Run(t)) /\ SF_vars(SaveAcquire(t))

\* The request bodies of the liveness runs: the content of the Records has
\* no part in whether a handler comes to its end, so one body is enough.
LivePayloads == { [title |-> "Dune", author |-> "Herbert", year |-> 1965] }

\* Next, with the bodies of create and update drawn from LivePayloads.
NextLive ==
  \/ \E t \in Threads :
       \/ StartList(t) \/ GetBooks(t)
       \/ StartGet(t) \/ GetBook(t)
       \/ StartCreate(t) /\ req'[t].payload \in LivePayloads
       \/ CreateNew(t) \/ CreateIncrRead(t)
       \/ CreateIncrWrite(t) \/ CreateAppend(t)
       \/ StartUpdate(t) /\ req'[t].payload \in LivePayloads
       \/ UpdateScan(t) \/ UpdateAssign(t)
       \/ StartDelete(t) \/ DeleteScan(t) \/ DeletePop(t)
       \/ SaveAcquire(t) \/ SaveOpen(t) \/ SaveIter(t) \/ SaveDump(t)
       \/ SaveRelease(t)
       \/ Return(t)
  \/ Reload

FairSpec == Init /\ [][NextLive]_vars /\ Fairness

C16_LoadSetsCounter ==
  life.loaded =>
    /\ (life.start = "ok" /\ file.data # <<>>)
         => /\ books = ParseBooks(file.data)
            /\ \E n \in 1..Len(books) : next_id = books[n].id + 1
            /\ \A n \in 1..Len(books) : books[n].id < next_id
    /\ (life.start = "ok" /\ file.data = <<>>)
         => books = <<>> /\ next_id = 1
    /\ life.start = "absent"
         => books = <<>> /\ next_id = 1

\* C16 witness: a file whose greatest id is not that of its last Record has
\* been loaded.
C16_Witness ==
  /\ life.loaded /\ life.start = "ok"
  /\ Len(books) = 2
  /\ books[1].id > books[2].id
  /\ next_id = books[1].id + 1

\* The list that the request of t, begun on snap.books, leaves in memory.
Changed(t) ==
  IF req[t].op = "create"
    THEN Append(snap.books, NewBook(snap.next_id, req[t].payload))
  ELSE IF req[t].op = "update"
    THEN [snap.books EXCEPT ![IndexOf(snap.books, req[t].book_id)] =
            NewBook(req[t].book_id, req[t].payload)]
  ELSE PopAt(snap.books, IndexOf(snap.books, req[t].book_id))

\* C17: when the file write of a create, update or delete raises, the
\* handler ends with the error, and the in-memory change it had made (the
\* Record appended, replaced or removed, the counter advanced) is kept while
\* the file is as it was or truncated.
C17_FailedWriteKeepsChange ==
  /\ [][\A t \in Threads :
          (SaveRelease(t) /\ loc[t].err)
            => /\ res'[t].status = 500
               /\ books' = books /\ next_id' = next_id /\ file' = file]_vars
  /\ [](\A t \in Threads :
          (DoneAlone(t) /\ req[t].op \in Mutating /\ res[t].status = 500)
            => /\ books = Changed(t)
               /\ next_id = IF req[t].op = "create" THEN snap.next_id + 1
                                                     ELSE snap.next_id
               /\ \/ file = snap.file
                  \/ file = [state |-> "partial", data |-> <<>>])

\* C17 witness: a create has ended with the error of its write; its Record
\* is in the list, and the file still holds the list without it.
C17_Witness ==
  \E t \in Threads :
    /\ DoneAlone(t) /\ req[t].op = "create" /\ res[t].status = 500
    /\ Len(books) = 2
    /\ file.state = "ok"
    /\ ParseBooks(file.data) = snap.books
    /\ ParseBooks(file.data) # books

\* The ids of a list, in its order.
IdSeq(bs) == [n \in 1..Len(bs) |-> bs[n].id]

\* C18: when requests run one after another, list returns the Records of the
\* Store in the order of their creation: create puts its Record at the end,
\* update keeps the place of its Record, delete keeps the order of the
\* remaining Records, so that the list is always in the order of the ids
\* handed out.
C18_ListInInsertionOrder ==
  /\ \A m, n \in 1..Len(books) : m < n => books[m].id < books[n].id
  /\ \A t \in Threads :
       /\ (DoneAlone(t) /\ req[t].op = "list")
            => res[t].body = books /\ books = snap.books
       /\ (DoneAlone(t) /\ req[t].op = "create")
            => /\ SubSeq(books, 1, Len(snap.books)) = snap.books
               /\ Len(books) = Len(snap.books) + 1
               /\ books[Len(books)].id = snap.next_id
       /\ (DoneAlone(t) /\ req[t].op = "update")
            => IdSeq(books) = IdSeq(snap.books)
       /\ (DoneAlone(t) /\ req[t].op = "delete" /\ res[t].status # 404)
            => \E k \in 1..Len(snap.books) :
                 /\ snap.books[k].id = req[t].book_id
                 /\ books = SubSeq(snap.books, 1, k - 1)
                              \o SubSeq(snap.books, k + 1, Len(snap.books))

\* C18 witness: a list that follows the update of the first of two Records
\* returns the updated Record first and the Record created later second.
C18_Witness ==
  \E t \in Threads :
    /\ Follows(t, "update") /\ req[t].op = "list"
    /\ Len(res[t].body) = 2
    /\ res[t].body[1] = last.res.body[1]
    /\ res[t].body[1].title # res[t].body[2].title
    /\ res[t].body[1].id < res[t].body[2].id

TypeOK ==
  /\ next_id \in Nat
  /\ lock \in {0} \cup Threads
  /\ file.state \in {"absent", "partial", "ok"}
  /\ \A t \in Threads : pc[t] \in
       {"idle", "l_ret", "g_scan", "c_new", "c_incr_read", "c_incr_write",
        "c_append", "u_scan", "u_assign", "d_scan", "d_pop", "s_acquire",
        "s_open", "s_iter", "s_dump", "s_release", "done"}
====
